---- MODULE Spec2Model ----
(***************************************************************************)
(* UserFacingExplain (src/mongo/db/query/optimizer/explain.h): the         *)
(* serializer that turns a physical plan (ABT) and its NodeToGroupPropsMap *)
(* into a nested BSON document.                                            *)
(*                                                                         *)
(* Every node the visitor dispatches on is a leaf or has one plan child,   *)
(* so a plan is the sequence of its nodes from the RootNode down; a node's *)
(* identity (its address, the key of _nodeMap) is its position in that     *)
(* sequence.  The recursion walk -> generateExplain -> walk is unfolded    *)
(* into one step per handler invocation, with the open BSONObjBuilders on  *)
(* a stack; the end of a handler's block destroys its inputBob.            *)
(***************************************************************************)
EXTENDS Integers, Sequences, FiniteSets, TLC

\* ---------------------------------------------------------------- bounds
MaxLen == 4      \* nodes in a plan, RootNode and leaf included
MaxCalls == 2    \* calls of explain on the same plan and property map

\* ------------------------------------------------------- field constants
kStage == "stage"
kNodeId == "planNodeId"
kProj == "projections"
kCE == "cardinalityEstimate"
kInput == "inputStage"
kScanName == "COLLSCAN"
kDir == "direction"
kForward == "forward"
kBackward == "backward"
kRandom == "random"
kFilterName == "FILTER"
kFilter == "filter"
kEvalName == "EVALUATION"
kRootName == "ROOT"
kCost == "costEstimate"
kEOF == "EOF"
kTodo == "<todo>"

\* tassert ids and messages
MissingPropsMsg == "Failed to find node properties"
UnsupportedMsg == "Trying to generate explain for an unsupported node."
NoNodesMsg == "The ABT has no nodes."
WalkAssertId(type) ==
    CASE type = "Root" -> 8075600
      [] type = "Filter" -> 8075601
      [] type = "Evaluation" -> 8075602
      [] type = "PhysicalScan" -> 8075603
NoNodesId == 8075604
EOFAssertId == 8075605
UnsupportedId == 8075606

\* ------------------------------------------------------------ plan nodes
\* All nodes are records of one shape so that the structural comparison of
\* isEOFPlan is record equality; a field a variant does not have holds the
\* same filler in every node of that variant.
Node(type, proj, limit, skip, order) ==
    [type |-> type, proj |-> proj, limit |-> limit, skip |-> skip, order |-> order]
RootNode == Node("Root", "-", 0, 0, "-")
FilterNode == Node("Filter", "-", 0, 0, "-")
EvaluationNode(proj) == Node("Evaluation", proj, 0, 0, "-")
PhysicalScanNode(order) == Node("PhysicalScan", "-", 0, 0, order)
LimitSkipNode(limit, skip) == Node("LimitSkip", "-", limit, skip, "-")
CoScanNode == Node("CoScan", "-", 0, 0, "-")

ScanOrder == {"Forward", "Reverse", "Random"}
Projections == {"Nothing", "Other"}     \* Constant::nothing() and any other expression
LimitSkips == {<<0, 0>>, <<0, 1>>, <<1, 0>>}

InnerNodes ==
    {FilterNode} \cup {EvaluationNode(p) : p \in Projections}
                 \cup {LimitSkipNode(ls[1], ls[2]) : ls \in LimitSkips}
LeafNodes == {PhysicalScanNode(o) : o \in ScanOrder} \cup {CoScanNode}

\* Plans rooted at a RootNode: what explain expects (comment of isEOFPlan).
Plans ==
    { <<RootNode>> \o mid \o <<leaf>> :
        mid \in UNION {[1..k -> InnerNodes] : k \in 0..(MaxLen - 2)},
        leaf \in LeafNodes }

\* -------------------------------------------------------- property store
IdBases == {0, 10}
Costs == {0, 13}
NodeProps(id, cost) == [_planNodeId |-> id, _cost |-> cost]
\* The maps a producer can hand over for a plan of n nodes: any subset of the
\* nodes annotated, plan-node ids distinct.
NodeMaps(n) ==
    { [i \in dom |-> NodeProps(base + i, cost + i - 1)] :
        dom \in SUBSET (1..n), base \in IdBases, cost \in Costs }

\* ------------------------------------------------------------- documents
\* A document is the sequence of its fields, in append order.
StrField(name, s) == [name |-> name, kind |-> "str", str |-> s, num |-> 0, obj |-> <<>>]
NumField(name, n) == [name |-> name, kind |-> "num", str |-> "", num |-> n, obj |-> <<>>]
ObjField(name, d) == [name |-> name, kind |-> "obj", str |-> "", num |-> 0, obj |-> d]

\* Outcome of one call of explain.
Returned(doc) == [kind |-> "doc", code |-> 0, msg |-> "", doc |-> doc]
Fatal(code, msg) == [kind |-> "fatal", code |-> code, msg |-> msg, doc |-> <<>>]

VARIABLES
    plan,       \* the ABT handed to explain
    nodeMap,    \* _nodeMap
    pc,         \* "idle" | "walk" | "return" | "unwind"
    cur,        \* position of the node generateExplain is dispatching on
    bobs,       \* stack of open builders; bobs[1] is explain's bob
    pending,    \* the exception in flight while pc = "unwind"
    opened,     \* nodes whose handler opened an inputStage scope, in order
    folded,     \* nodes whose inputStage scope was folded back, in order
    history     \* outcomes of the finished calls of explain

vars == <<plan, nodeMap, pc, cur, bobs, pending, opened, folded, history>>

NoPending == Fatal(0, "")

Init ==
    /\ plan \in Plans
    /\ nodeMap \in NodeMaps(Len(plan))
    /\ pc = "idle"
    /\ cur = 0
    /\ bobs = <<>>
    /\ pending = NoPending
    /\ opened = <<>>
    /\ folded = <<>>
    /\ history = <<>>

\* isEOFPlan comparing the variants under the EvaluationNode but not the
\* limit and skip bounds.
isEOFPlanIgnoringBounds(p) ==
    IF p[2].type # "Evaluation" THEN FALSE
    ELSE IF p[2].proj # "Nothing" THEN FALSE
    ELSE /\ Len(p) = 4
         /\ p[3].type = "LimitSkip"
         /\ p[4].type = "CoScan"

\* ------------------------------------------------------------- isEOFPlan
isEOFPlan(p) ==
    IF p[2].type # "Evaluation" THEN FALSE
    ELSE IF p[2].proj # "Nothing" THEN FALSE
    ELSE SubSeq(p, 3, Len(p)) = <<LimitSkipNode(0, 0), CoScanNode>>

\* generateEOFPlan looking up the Root's child instead of the Root.
generateEOFPlanOfChild(m) ==
    IF 2 \notin DOMAIN m THEN Fatal(EOFAssertId, MissingPropsMsg)
    ELSE Returned(<<StrField(kStage, kEOF), NumField(kNodeId, m[2]._planNodeId)>>)

\* ------------------------------------------------------- generateEOFPlan
generateEOFPlan(m) ==
    IF 1 \notin DOMAIN m THEN Fatal(EOFAssertId, MissingPropsMsg)
    ELSE Returned(<<StrField(kStage, kEOF), NumField(kNodeId, m[1]._planNodeId)>>)

\* walk(RootNode) appending the projections before the stage name.
RootFieldsStageSecond(props) ==
    << StrField(kProj, kTodo), StrField(kStage, kRootName),
       StrField(kCE, kTodo), NumField(kCost, props._cost) >>

\* ------------------------------------------------ fields of each handler
RootFields(props) ==
    << StrField(kStage, kRootName), StrField(kProj, kTodo),
       StrField(kCE, kTodo), NumField(kCost, props._cost) >>

\* walk(FilterNode) without the plan-node id.
FilterFieldsNoNodeId(props) ==
    << StrField(kStage, kFilterName), StrField(kFilter, kTodo), StrField(kCE, kTodo) >>

FilterFields(props) ==
    << StrField(kStage, kFilterName), NumField(kNodeId, props._planNodeId),
       StrField(kFilter, kTodo), StrField(kCE, kTodo) >>

EvaluationFields(props) ==
    << StrField(kStage, kEvalName), NumField(kNodeId, props._planNodeId),
       StrField(kProj, kTodo), StrField(kCE, kTodo) >>

\* The switch on getScanOrder() without its break statements.
DirectionFieldsFallThrough(order) ==
    CASE order = "Forward" ->
            <<StrField(kDir, kForward), StrField(kDir, kBackward), StrField(kDir, kRandom)>>
      [] order = "Reverse" -> <<StrField(kDir, kBackward), StrField(kDir, kRandom)>>
      [] order = "Random" -> <<StrField(kDir, kRandom)>>
      [] OTHER -> <<>>

DirectionFields(order) ==
    CASE order = "Forward" -> <<StrField(kDir, kForward)>>
      [] order = "Reverse" -> <<StrField(kDir, kBackward)>>
      [] order = "Random" -> <<StrField(kDir, kRandom)>>
      [] OTHER -> <<>>

PhysicalScanFields(node, props) ==
    << StrField(kStage, kScanName), NumField(kNodeId, props._planNodeId) >>
       \o DirectionFields(node.order)
       \o << StrField(kProj, kTodo), StrField(kCE, kTodo) >>

\* --------------------------------------------------------------- builder
Top(s) == s[Len(s)]
Pop(s) == SubSeq(s, 1, Len(s) - 1)
\* bob->append(...) on the innermost open builder
AppendTop(s, fields) == [s EXCEPT ![Len(s)] = @ \o fields]
\* bob->subobjStart(kInput): a child builder on top of its parent
SubobjStart(s) == Append(s, <<>>)
\* completion of the innermost builder: its document becomes the field
\* kInput of its parent
Done(s) == [Pop(s) EXCEPT ![Len(s) - 1] = Append(@, ObjField(kInput, Top(s)))]

\* --------------------------------------------------------------- explain
\* explain, when isEOFPlan holds: generateEOFPlan and nothing else.
explainEOF ==
    /\ pc = "idle"
    /\ Len(history) < MaxCalls
    /\ isEOFPlan(plan)
    /\ history' = Append(history, generateEOFPlan(nodeMap))
    /\ opened' = <<>>
    /\ folded' = <<>>
    /\ UNCHANGED <<plan, nodeMap, pc, cur, bobs, pending>>

\* explain, otherwise: a fresh bob and generateExplain(node, &bob).
explainWalk ==
    /\ pc = "idle"
    /\ Len(history) < MaxCalls
    /\ ~isEOFPlan(plan)
    /\ bobs' = <<<<>>>>
    /\ cur' = 1
    /\ pc' = "walk"
    /\ opened' = <<>>
    /\ folded' = <<>>
    /\ UNCHANGED <<plan, nodeMap, pending, history>>

\* A handler whose tassert on the property lookup fails.
Throw(code, msg) ==
    /\ pending' = Fatal(code, msg)
    /\ pc' = "unwind"
    /\ UNCHANGED <<plan, nodeMap, cur, bobs, opened, folded, history>>

\* A handler handing its own bob, not inputBob, to generateExplain.
DescendIntoSameBob(fields) ==
    /\ bobs' = AppendTop(bobs, fields)
    /\ cur' = cur + 1
    /\ UNCHANGED <<plan, nodeMap, pc, pending, opened, folded, history>>

\* A handler of a node with a child: append, open inputBob, recurse.
Descend(fields) ==
    /\ bobs' = SubobjStart(AppendTop(bobs, fields))
    /\ opened' = Append(opened, cur)
    /\ cur' = cur + 1
    /\ UNCHANGED <<plan, nodeMap, pc, pending, folded, history>>

\* walk(RootNode) looking the node up with operator[], which inserts a
\* default record for a node that has none.
walkRootInserting ==
    /\ pc = "walk"
    /\ plan[cur].type = "Root"
    /\ nodeMap' = IF cur \in DOMAIN nodeMap THEN nodeMap
                  ELSE [i \in DOMAIN nodeMap \cup {cur} |->
                          IF i = cur THEN NodeProps(0, 0) ELSE nodeMap[i]]
    /\ bobs' = SubobjStart(AppendTop(bobs, RootFields(nodeMap'[cur])))
    /\ opened' = Append(opened, cur)
    /\ cur' = cur + 1
    /\ UNCHANGED <<plan, pc, pending, folded, history>>

walkRoot ==
    /\ pc = "walk"
    /\ plan[cur].type = "Root"
    /\ IF cur \notin DOMAIN nodeMap
       THEN Throw(WalkAssertId("Root"), MissingPropsMsg)
       ELSE Descend(RootFields(nodeMap[cur]))

walkFilter ==
    /\ pc = "walk"
    /\ plan[cur].type = "Filter"
    /\ IF cur \notin DOMAIN nodeMap
       THEN Throw(WalkAssertId("Filter"), MissingPropsMsg)
       ELSE Descend(FilterFields(nodeMap[cur]))

walkEvaluation ==
    /\ pc = "walk"
    /\ plan[cur].type = "Evaluation"
    /\ IF cur \notin DOMAIN nodeMap
       THEN Throw(WalkAssertId("Evaluation"), MissingPropsMsg)
       ELSE Descend(EvaluationFields(nodeMap[cur]))

\* walk(PhysicalScanNode) without its tassert: a default record stands in
\* for the missing one.
walkPhysicalScanUnchecked ==
    /\ pc = "walk"
    /\ plan[cur].type = "PhysicalScan"
    /\ bobs' = AppendTop(bobs, PhysicalScanFields(plan[cur],
                   IF cur \in DOMAIN nodeMap THEN nodeMap[cur] ELSE NodeProps(0, 0)))
    /\ pc' = "return"
    /\ UNCHANGED <<plan, nodeMap, cur, pending, opened, folded, history>>

walkPhysicalScan ==
    /\ pc = "walk"
    /\ plan[cur].type = "PhysicalScan"
    /\ IF cur \notin DOMAIN nodeMap
       THEN Throw(WalkAssertId("PhysicalScan"), MissingPropsMsg)
       ELSE /\ bobs' = AppendTop(bobs, PhysicalScanFields(plan[cur], nodeMap[cur]))
            /\ pc' = "return"
            /\ UNCHANGED <<plan, nodeMap, cur, pending, opened, folded, history>>

\* The default case as a no-op.
walkDefaultNoop ==
    /\ pc = "walk"
    /\ plan[cur].type \notin {"Root", "Filter", "Evaluation", "PhysicalScan"}
    /\ pc' = "return"
    /\ UNCHANGED <<plan, nodeMap, cur, bobs, pending, opened, folded, history>>

\* The default case: every other variant.
walkDefault ==
    /\ pc = "walk"
    /\ plan[cur].type \notin {"Root", "Filter", "Evaluation", "PhysicalScan"}
    /\ Throw(UnsupportedId, UnsupportedMsg)

\* An inputBob completed by a statement after generateExplain, which the
\* exception in flight skips: the scope is dropped, not folded.
inputBobDoneAfterCall ==
    /\ pc \in {"return", "unwind"}
    /\ Len(bobs) > 1
    /\ bobs' = IF pc = "return" THEN Done(bobs) ELSE Pop(bobs)
    /\ folded' = IF pc = "return" THEN Append(folded, opened[Len(bobs) - 1]) ELSE folded
    /\ UNCHANGED <<plan, nodeMap, pc, cur, pending, opened, history>>

\* End of a handler's block, reached by return or by the exception in
\* flight: inputBob is destroyed and its document folded into the parent.
inputBobScopeExit ==
    /\ pc \in {"return", "unwind"}
    /\ Len(bobs) > 1
    /\ bobs' = Done(bobs)
    /\ folded' = Append(folded, opened[Len(bobs) - 1])
    /\ UNCHANGED <<plan, nodeMap, pc, cur, pending, opened, history>>

\* Back in explain after generateExplain returned: bob.obj(), tassert, return.
explainReturn ==
    /\ pc = "return"
    /\ Len(bobs) = 1
    /\ history' = Append(history,
                         IF bobs[1] = <<>> THEN Fatal(NoNodesId, NoNodesMsg)
                                           ELSE Returned(bobs[1]))
    /\ bobs' = <<>>
    /\ cur' = 0
    /\ pc' = "idle"
    /\ UNCHANGED <<plan, nodeMap, pending, opened, folded>>

\* The exception leaves explain: bob is destroyed, nothing is returned.
explainThrow ==
    /\ pc = "unwind"
    /\ Len(bobs) = 1
    /\ history' = Append(history, pending)
    /\ pending' = NoPending
    /\ bobs' = <<>>
    /\ cur' = 0
    /\ pc' = "idle"
    /\ UNCHANGED <<plan, nodeMap, opened, folded>>

Next ==
    \/ explainEOF
    \/ explainWalk
    \/ walkRoot
    \/ walkFilter
    \/ walkEvaluation
    \/ walkPhysicalScan
    \/ walkDefault
    \/ inputBobScopeExit
    \/ explainReturn
    \/ explainThrow

Spec == Init /\ [][Next]_vars

TypeOK ==
    /\ pc \in {"idle", "walk", "return", "unwind"}
    /\ Len(history) <= MaxCalls

\* ------------------------------------------------- vocabulary of the claims
Outcomes == {history[k] : k \in 1..Len(history)}
EOFShape == <<RootNode, EvaluationNode("Nothing"), LimitSkipNode(0, 0), CoScanNode>>
Supported == {"Root", "Filter", "Evaluation", "PhysicalScan"}
AllAnnotated == DOMAIN nodeMap = 1..Len(plan)
MissingPropsCodes == {8075600, 8075601, 8075602, 8075603, 8075605}

FieldNames(doc) == {doc[i].name : i \in 1..Len(doc)}
FieldCount(doc, name) == Cardinality({i \in 1..Len(doc) : doc[i].name = name})
FieldOf(doc, name) == doc[CHOOSE i \in 1..Len(doc) : doc[i].name = name]
StageOf(doc) == IF FieldCount(doc, "stage") = 1 THEN FieldOf(doc, "stage").str ELSE "?"

\* The stage documents of a document, outermost first, following "inputStage".
RECURSIVE Stages(_)
Stages(doc) ==
    IF FieldCount(doc, "inputStage") = 0 THEN <<doc>>
    ELSE <<doc>> \o Stages(FieldOf(doc, "inputStage").obj)

Reverse(s) == [i \in 1..Len(s) |-> s[Len(s) + 1 - i]]

\* ------------------------------------------------------------------ C1
\* C1: for the plan Root -> Evaluation(Nothing) -> LimitSkip(0,0) -> CoScan
\* whose Root has a property record, isEOFPlan is true and every call of
\* explain returns exactly {stage: "EOF", planNodeId: <the Root's id>},
\* without a handler having run (no builder opened, no scope opened).
C1_EOFDocument ==
    (plan = EOFShape /\ 1 \in DOMAIN nodeMap) =>
        /\ isEOFPlan(plan)
        /\ pc = "idle" /\ bobs = <<>> /\ opened = <<>>
        /\ \A o \in Outcomes :
              /\ o.kind = "doc"
              /\ Len(o.doc) = 2
              /\ o.doc[1] = StrField("stage", "EOF")
              /\ o.doc[2] = NumField("planNodeId", nodeMap[1]._planNodeId)

C1_Witness ==
    /\ plan = EOFShape
    /\ DOMAIN nodeMap = {1}
    /\ Len(history) >= 1
    /\ history[1].kind = "doc"

\* ------------------------------------------------------------------ C2
\* C2: for every Root-rooted plan other than the empty-result shape,
\* isEOFPlan is false and no call of explain takes the EOF short cut: its
\* outcome is the one of the traversal (a document that starts at the ROOT
\* stage, or a fatal condition raised by a handler).
C2_DeviationWalks ==
    (plan # EOFShape) =>
        /\ ~isEOFPlan(plan)
        /\ \A o \in Outcomes :
              /\ o.kind = "doc" => StageOf(o.doc) = "ROOT"
              /\ o.kind = "fatal" => o.code \in {8075600, 8075601, 8075602, 8075603, 8075606}
        /\ (Len(history) >= 1 /\ pc = "idle" /\ 1 \in DOMAIN nodeMap) => opened # <<>>

C2_Witness ==
    /\ plan = <<RootNode, EvaluationNode("Nothing"), LimitSkipNode(0, 1), CoScanNode>>
    /\ AllAnnotated
    /\ Len(history) >= 1
    /\ opened = <<1, 2>>

\* ------------------------------------------------------------------ C3
\* C3: for a chain of n nodes Root, Filter/Evaluation..., PhysicalScan, all
\* annotated, explain returns a document with exactly n stage levels nested
\* through "inputStage" (one "inputStage" in each of the n-1 outer levels),
\* whose stage names follow the node order and whose innermost level is the
\* COLLSCAN stage without "inputStage".
ExpectedStage(type) ==
    CASE type = "Root" -> "ROOT"
      [] type = "Filter" -> "FILTER"
      [] type = "Evaluation" -> "EVALUATION"
      [] type = "PhysicalScan" -> "COLLSCAN"
      [] OTHER -> "-"

SupportedChain ==
    /\ \A i \in 2..(Len(plan) - 1) : plan[i].type \in {"Filter", "Evaluation"}
    /\ plan[Len(plan)].type = "PhysicalScan"
    /\ AllAnnotated

C3_ChainNesting ==
    SupportedChain =>
        \A o \in Outcomes :
            /\ o.kind = "doc"
            /\ LET st == Stages(o.doc) IN
                  /\ Len(st) = Len(plan)
                  /\ \A i \in 1..Len(st) : StageOf(st[i]) = ExpectedStage(plan[i].type)
                  /\ \A i \in 1..(Len(st) - 1) : FieldCount(st[i], "inputStage") = 1
                  /\ FieldCount(st[Len(st)], "inputStage") = 0
                  /\ StageOf(st[Len(st)]) = "COLLSCAN"

C3_Witness ==
    /\ SupportedChain
    /\ Len(plan) >= 4
    /\ plan[2].type = "Filter"
    /\ plan[3].type = "Evaluation"
    /\ Len(history) >= 1

\* ------------------------------------------------------------------ C4
\* The first node, in traversal order, that stops the traversal: it has no
\* property record or is of a variant without a handler (0 if there is none).
FirstStop ==
    LET stops == {i \in 1..Len(plan) : i \notin DOMAIN nodeMap \/ plan[i].type \notin Supported}
    IN IF stops = {} THEN 0 ELSE CHOOSE i \in stops : \A j \in stops : i <= j

\* C4 as stated: whenever some node of the plan has no property record,
\* explain aborts with "Failed to find node properties".
C4_AnyMissingAborts ==
    (\E i \in 1..Len(plan) : i \notin DOMAIN nodeMap) =>
        \A o \in Outcomes : o.kind = "fatal" /\ o.msg = "Failed to find node properties"

\* C4, amended: explain aborts with "Failed to find node properties" and
\* returns no document when the record is missing for the Root of an
\* empty-result plan, or, in any other plan, for a node of a supported
\* variant that the traversal reaches before any unsupported variant and
\* any other unannotated node.
C4_ReachedMissingAborts ==
    LET aborts == IF plan = EOFShape THEN 1 \notin DOMAIN nodeMap
                  ELSE /\ FirstStop # 0
                       /\ FirstStop \notin DOMAIN nodeMap
                       /\ plan[FirstStop].type \in Supported
    IN aborts =>
        \A o \in Outcomes :
            /\ o.kind = "fatal"
            /\ o.msg = "Failed to find node properties"
            /\ o.code \in MissingPropsCodes
            /\ o.doc = <<>>

C4_Witness ==
    /\ plan # EOFShape
    /\ Len(plan) >= 3
    /\ DOMAIN nodeMap = 1..(Len(plan) - 1)
    /\ plan[Len(plan)].type = "PhysicalScan"
    /\ Len(history) >= 1
    /\ history[1] = Fatal(8075603, "Failed to find node properties")

\* ------------------------------------------------------------------ C5
\* C5: in a plan, not of the empty-result shape, with all nodes annotated
\* and exactly one node of a variant without a handler, every call of
\* explain aborts with 8075606 and returns no document, and the traversal
\* stops at that node.
OneUnsupported ==
    /\ plan # EOFShape
    /\ AllAnnotated
    /\ Cardinality({i \in 1..Len(plan) : plan[i].type \notin Supported}) = 1

C5_UnsupportedAborts ==
    OneUnsupported =>
        /\ \A o \in Outcomes :
              o = [kind |-> "fatal", code |-> 8075606,
                   msg |-> "Trying to generate explain for an unsupported node.",
                   doc |-> <<>>]
        /\ (Len(history) >= 1 /\ pc = "idle") =>
              opened = [i \in 1..(FirstStop - 1) |-> i]

C5_Witness ==
    /\ OneUnsupported
    /\ Len(plan) >= 3
    /\ plan[Len(plan)].type = "CoScan"
    /\ Len(history) >= 1

\* ------------------------------------------------------------------ C6
\* The field sets of the table of section 4.1 and of the EOF document.
TableFields(stage) ==
    CASE stage = "ROOT" -> {"stage", "costEstimate", "projections", "inputStage"}
      [] stage = "FILTER" -> {"stage", "planNodeId", "filter", "inputStage"}
      [] stage = "EVALUATION" -> {"stage", "planNodeId", "projections", "inputStage"}
      [] stage = "COLLSCAN" -> {"stage", "planNodeId", "direction"}
      [] stage = "EOF" -> {"stage", "planNodeId"}
      [] OTHER -> {}

\* What the handlers append: the table, plus "cardinalityEstimate" in every
\* stage but EOF and "projections" in COLLSCAN.
EmittedFields(stage) ==
    CASE stage = "ROOT" -> TableFields(stage) \cup {"cardinalityEstimate"}
      [] stage = "FILTER" -> TableFields(stage) \cup {"cardinalityEstimate"}
      [] stage = "EVALUATION" -> TableFields(stage) \cup {"cardinalityEstimate"}
      [] stage = "COLLSCAN" -> TableFields(stage) \cup {"cardinalityEstimate", "projections"}
      [] OTHER -> TableFields(stage)

ReturnedStages ==
    UNION { {Stages(o.doc)[i] : i \in 1..Len(Stages(o.doc))} : o \in {x \in Outcomes : x.kind = "doc"} }

\* C6 as stated: every stage document has exactly the fields of the table.
C6_TableFieldSets ==
    \A st \in ReturnedStages : FieldNames(st) = TableFields(StageOf(st))

\* C6, amended: every stage document has exactly the fields of the table
\* plus a "cardinalityEstimate" placeholder in ROOT, FILTER, EVALUATION and
\* COLLSCAN and a "projections" placeholder in COLLSCAN, each field once.
C6_EmittedFieldSets ==
    \A st \in ReturnedStages :
        /\ StageOf(st) \in {"ROOT", "FILTER", "EVALUATION", "COLLSCAN", "EOF"}
        /\ FieldNames(st) = EmittedFields(StageOf(st))
        /\ Len(st) = Cardinality(FieldNames(st))

C6_Witness ==
    \E o \in Outcomes :
        /\ o.kind = "doc"
        /\ {StageOf(st) : st \in ReturnedStages} = {"ROOT", "FILTER", "EVALUATION", "COLLSCAN"}

\* ------------------------------------------------------------------ C7
\* C7: the COLLSCAN stage of every returned document has exactly one
\* "direction" field, whose value is forward for Forward, backward for
\* Reverse and random for Random.
ExpectedDirection(order) ==
    CASE order = "Forward" -> "forward"
      [] order = "Reverse" -> "backward"
      [] order = "Random" -> "random"
      [] OTHER -> "-"

C7_Direction ==
    \A o \in Outcomes :
        (o.kind = "doc" /\ plan[Len(plan)].type = "PhysicalScan") =>
            LET scan == Stages(o.doc)[Len(Stages(o.doc))] IN
               /\ StageOf(scan) = "COLLSCAN"
               /\ FieldCount(scan, "direction") = 1
               /\ FieldOf(scan, "direction").kind = "str"
               /\ FieldOf(scan, "direction").str = ExpectedDirection(plan[Len(plan)].order)

C7_Witness ==
    /\ plan[Len(plan)] = PhysicalScanNode("Reverse")
    /\ Len(history) >= 1
    /\ history[1].kind = "doc"

\* ------------------------------------------------------------------ C8
\* C8: no step of explain changes the plan or the property map, and a
\* second call on them ends as the first did: the same document, field
\* for field and in order, or the same fatal condition.
C8_Idempotent ==
    [][ /\ plan' = plan
        /\ nodeMap' = nodeMap
        /\ \A k \in 2..Len(history') : history'[k] = history'[1] ]_vars

C8_Witness ==
    /\ Len(history) >= 2
    /\ history[2].kind = "doc"
    /\ Len(history[2].doc) > 2

\* ------------------------------------------------------------------ C9
\* C9: the inputStage scopes are folded back last-opened-first-folded, each
\* at most once and only after the traversal below it has ended; when the
\* call is over, by return or by a fatal condition, every opened scope has
\* been folded exactly once.
C9_ScopesFolded ==
    /\ pc = "walk" => folded = <<>>
    /\ Len(folded) <= Len(opened)
    /\ \A j \in 1..Len(folded) : folded[j] = opened[Len(opened) + 1 - j]
    /\ bobs # <<>> => Len(bobs) - 1 = Len(opened) - Len(folded)
    /\ pc = "idle" => folded = Reverse(opened)
    /\ Cardinality({opened[j] : j \in 1..Len(opened)}) = Len(opened)

C9_Witness ==
    /\ pc = "idle"
    /\ Len(history) >= 1
    /\ history[Len(history)].kind = "fatal"
    /\ Len(opened) >= 2
    /\ folded = Reverse(opened)

\* ------------------------------------------------------------------ C10
\* C10: no call ends with 8075604; a call aborts with a missing-property or
\* unsupported-variant condition or returns a non-empty document whose
\* first field is "stage"; every builder a handler has appended to starts
\* with "stage", and it belongs to a node that has a property record.
C10_NeverEmpty ==
    /\ \A o \in Outcomes :
          /\ o.code # 8075604
          /\ o.kind = "fatal" => o.code \in MissingPropsCodes \cup {8075606}
          /\ o.kind = "doc" => (o.doc # <<>> /\ o.doc[1].name = "stage")
    /\ \A d \in 1..Len(bobs) :
          bobs[d] # <<>> => (bobs[d][1].name = "stage" /\ d \in DOMAIN nodeMap)
    /\ (pc = "return" /\ Len(bobs) = 1) => bobs[1] # <<>>

C10_Witness ==
    /\ pc = "return"
    /\ Len(bobs) = 1
    /\ Len(bobs[1]) > 1
====
